---- MODULE Spec2Model ----
(***************************************************************************)
(* PalomaPOS Dashboard: the session/auth state holder (AuthContext.tsx),   *)
(* its caller (Login.tsx) and the embedded-app frame bridge                *)
(* (IframeContainer.tsx, rendered by Dashboard), as a state machine.       *)
(*                                                                         *)
(* One step of the model is one JavaScript task: the code that runs from   *)
(* the start of a handler, or from the resumption of an await, up to the   *)
(* next await on a network request.  React state setters are applied in    *)
(* program order (the handlers only use full replacements and functional   *)
(* updates, never a stale read of the state).                              *)
(***************************************************************************)
EXTENDS Integers, Sequences, FiniteSets, TLC

\* ------------------------------------------------------------------------
\* Bounds
\* ------------------------------------------------------------------------
\* number of inbound-message handlers that can be suspended at the same time
MaxHandlers == 2

Handlers == 1..MaxHandlers

\* ------------------------------------------------------------------------
\* Values
\* ------------------------------------------------------------------------
\* null / undefined / an absent storage key
NULL == "null"

\* STORAGE_KEYS of AuthContext.tsx
STORAGE_KEYS ==
  {"paloma_token", "paloma_accid", "paloma_apid", "paloma_employeeid",
   "paloma_wpid", "paloma_idautomated_point", "paloma_idworkplace",
   "isTokenInherit", "isCredentialLogin"}

\* every sessionStorage key the application writes
AllKeys == STORAGE_KEYS \cup {"paloma_customUrl"}

\* the sessionStorage keys with the prefix paloma_
PalomaKeys ==
  {"paloma_token", "paloma_accid", "paloma_apid", "paloma_employeeid",
   "paloma_wpid", "paloma_idautomated_point", "paloma_idworkplace",
   "paloma_customUrl"}

palomaURL == "https://posapi.palomapos.com/api/v1.9"

\* the account fields carried by a getToken reply or an inbound message
NoIds == [accid |-> NULL, apid |-> NULL, employeeid |-> NULL, wpid |-> NULL]

SomeIds == [accid |-> "a1", apid |-> "p1", employeeid |-> "e1", wpid |-> "w1"]

\* inbound window messages (event.data): an authentication message with
\* every optional field, one with the token only, one without a token, and
\* a message of another type (as the embedded frame posts)
InboundMessages ==
  { [type |-> "authentication", token |-> "t1", ids |-> SomeIds,
     customUrl |-> "https://custom.example/api", theme |-> "light", language |-> "ru"],
    [type |-> "authentication", token |-> "t2", ids |-> NoIds,
     customUrl |-> NULL, theme |-> NULL, language |-> NULL],
    [type |-> "authentication", token |-> NULL, ids |-> SomeIds,
     customUrl |-> NULL, theme |-> NULL, language |-> NULL],
    [type |-> "download", token |-> NULL, ids |-> NoIds,
     customUrl |-> NULL, theme |-> NULL, language |-> NULL] }

\* replies of POST /getToken, as login() sees them: a session with every
\* field, one with the token only, a reply without token, a rejection
GetTokenReplies ==
  { [kind |-> "ok", token |-> "t1", ids |-> SomeIds],
    [kind |-> "ok", token |-> "t2", ids |-> NoIds],
    [kind |-> "notoken", token |-> NULL, ids |-> NoIds],
    [kind |-> "reject", token |-> NULL, ids |-> NoIds] }

NoReply == CHOOSE r \in GetTokenReplies : r.kind = "reject"

\* replies of POST /getReports (currency): a symbol, no row, or a rejection
CurrencyReplies == {"EUR", "norow", "reject"}

\* replies of POST /get (d_changes row)
SessionReplies ==
  { [kind |-> "row", idautomated_point |-> "ap1", idworkplace |-> "wp1"],
    [kind |-> "norow", idautomated_point |-> NULL, idworkplace |-> NULL],
    [kind |-> "invalid", idautomated_point |-> NULL, idworkplace |-> NULL],
    [kind |-> "reject", idautomated_point |-> NULL, idworkplace |-> NULL] }

\* sessionData = null
NoSessionData == [idautomated_point |-> NULL, idworkplace |-> NULL]

\* the target URLs of the app registry, as `new URL(url)` parses them: the
\* dashboard app, one of its sub-routes, and another app
Urls ==
  { [protocol |-> "https:", host |-> "dashboard.apps.palomapos.com",
     pathname |-> "/", search |-> "", hash |-> ""],
    [protocol |-> "https:", host |-> "dashboard.apps.palomapos.com",
     pathname |-> "/reports/orders", search |-> "", hash |-> ""],
    [protocol |-> "https:", host |-> "timeclock.apps.palomapos.com",
     pathname |-> "/", search |-> "", hash |-> ""] }

\* null, for a ref that holds a URL and for one that holds a base URL
NoUrl ==
  [protocol |-> NULL, host |-> NULL, pathname |-> NULL, search |-> NULL,
   hash |-> NULL]

NoBaseUrl == [protocol |-> NULL, host |-> NULL]

\* no IframeContainer is mounted
Unmounted ==
  [mounted |-> FALSE, url |-> NoUrl, iframeSrc |-> NoUrl, prevUrl |-> NoUrl,
   prevBaseUrl |-> NoBaseUrl, loaded |-> FALSE, received |-> NULL,
   window |-> FALSE]

\* the task recorded in the initial state
NoEvent == [op |-> "Init", who |-> 0, token |-> NULL, reply |-> NULL]

\* ------------------------------------------------------------------------
\* State
\* ------------------------------------------------------------------------
VARIABLES
  sessionStorage,     \* per-tab storage: key -> value or NULL
  currency,           \* localStorage key 'currency'
  auth,               \* useState<AuthState>
  isTokenInheriting,  \* the separate useState flag the context exposes
  sessionData,        \* useState<SessionData | null>, null as NoSessionData
  theme,              \* ThemeContext theme (state and localStorage)
  language,           \* LanguageContext language (state and localStorage)
  apiUrl,             \* apiConfigService url (setApiUrl / getApiUrl)
  navs,               \* the navigations the last task issued, in order
  hpc,                \* per handler: "idle", "currency", "session"
  hmsg,               \* per handler: token and ids of the message it processes
  lpc,                \* login(): "idle", "getToken", "currency", "session"
  ldata,              \* login(): the getToken reply
  lastTask,           \* the task that ran last: operation, handler, token, reply
  frame,              \* IframeContainer: url prop, iframeSrc state, the two
                      \* refs; whether the document of the iframe has loaded
                      \* and the token it received last
  posted,             \* the messages the last task posted to the iframe
  docs,               \* the documentation API: the last request and its response
  dashboard           \* the Dashboard page: its variant, active app, sub-item

vars == <<sessionStorage, currency, auth, isTokenInheriting, sessionData,
          theme, language, apiUrl, navs, hpc, hmsg, lpc, ldata, lastTask,
          frame, posted, docs, dashboard>>

\* the part of the state the provider's functions read and write
World ==
  [ss |-> sessionStorage, currency |-> currency, auth |-> auth,
   isTokenInheriting |-> isTokenInheriting, sessionData |-> sessionData,
   theme |-> theme, language |-> language, apiUrl |-> apiUrl,
   navs |-> <<>>]

Commit(w) ==
  /\ sessionStorage' = w.ss
  /\ currency' = w.currency
  /\ auth' = w.auth
  /\ isTokenInheriting' = w.isTokenInheriting
  /\ sessionData' = w.sessionData
  /\ theme' = w.theme
  /\ language' = w.language
  /\ apiUrl' = w.apiUrl
  /\ navs' = w.navs

\* ------------------------------------------------------------------------
\* Storage helpers
\* ------------------------------------------------------------------------
setItem(w, key, value) == [w EXCEPT !.ss[key] = value]

removeItem(w, key) == [w EXCEPT !.ss[key] = NULL]

\* `if (v) sessionStorage.setItem(key, v)`
setItemIf(w, key, value) == IF value # NULL THEN setItem(w, key, value) ELSE w

\* `v || d`
OrElse(v, d) == IF v = NULL THEN d ELSE v

\* navigate(path) of the router
navigate(w, path) == [w EXCEPT !.navs = Append(@, [path |-> path, full |-> FALSE])]

\* window.location.replace(path)
locationReplace(w, path) == [w EXCEPT !.navs = Append(@, [path |-> path, full |-> TRUE])]

\* useState initialisers of AuthProvider, read from sessionStorage
InitialAuth(ss) ==
  [token |-> ss["paloma_token"],
   accid |-> ss["paloma_accid"],
   apid |-> ss["paloma_apid"],
   employeeid |-> ss["paloma_employeeid"],
   wpid |-> ss["paloma_wpid"],
   isAuthenticated |-> ss["paloma_token"] # NULL,
   isTokenInheriting |-> (ss["isTokenInherit"] = "true" /\ ss["paloma_token"] = NULL),
   isCredentialLogin |-> ss["isCredentialLogin"] = "true"]

\* mutant: the flag alone decides, whether or not a token is persisted
InitialIsTokenInheriting_flagOnly(ss) == ss["isTokenInherit"] = "true"

InitialIsTokenInheriting(ss) ==
  ss["isTokenInherit"] = "true" /\ ss["paloma_token"] = NULL

EmptyStorage == [k \in AllKeys |-> NULL]

\* ------------------------------------------------------------------------
\* Provider functions
\* ------------------------------------------------------------------------
\* mutant: the inheritance flag survives clearStorage
clearStorage_keepsInherit(w) ==
  [w EXCEPT !.ss = [k \in AllKeys |->
                      IF k \in STORAGE_KEYS \ {"isTokenInherit"} THEN NULL
                      ELSE w.ss[k]],
            !.currency = NULL]

\* clearStorage: every key of STORAGE_KEYS, and the currency
clearStorage(w) ==
  [w EXCEPT !.ss = [k \in AllKeys |-> IF k \in STORAGE_KEYS THEN NULL ELSE w.ss[k]],
            !.currency = NULL]

logout(w) ==
  locationReplace(
   [clearStorage(w) EXCEPT
     !.auth = [token |-> NULL, accid |-> NULL, apid |-> NULL,
               employeeid |-> NULL, wpid |-> NULL,
               isAuthenticated |-> FALSE, isTokenInheriting |-> FALSE,
               isCredentialLogin |-> FALSE],
     !.sessionData = NoSessionData],
   "/login")

handleTokenError(w) == navigate(logout(w), "/login")

fetchAndStoreCurrency(w, reply) ==
  [w EXCEPT !.currency = IF reply \in {"norow", "reject"} THEN "$" ELSE reply]

\* mutant: the final setAuth (isAuthenticated: true) is missing
fetchSessionData_noSetAuth(w, reply) ==
  IF reply.kind = "reject" THEN w
  ELSE IF reply.kind = "invalid" THEN handleTokenError(w)
  ELSE IF reply.kind = "row"
       THEN setItem(
              setItem(
                [w EXCEPT !.sessionData =
                   [idautomated_point |-> reply.idautomated_point,
                    idworkplace |-> reply.idworkplace]],
                "paloma_idautomated_point", reply.idautomated_point),
              "paloma_idworkplace", reply.idworkplace)
       ELSE w

\* fetchSessionData, from the resolution of its request
fetchSessionData(w, reply) ==
  IF reply.kind = "reject" THEN w
  ELSE IF reply.kind = "invalid" THEN handleTokenError(w)
  ELSE LET w1 == IF reply.kind = "row"
                 THEN setItem(
                        setItem(
                          [w EXCEPT !.sessionData =
                             [idautomated_point |-> reply.idautomated_point,
                              idworkplace |-> reply.idworkplace]],
                          "paloma_idautomated_point", reply.idautomated_point),
                        "paloma_idworkplace", reply.idworkplace)
                 ELSE w
       IN [w1 EXCEPT !.auth.isAuthenticated = TRUE]

\* ------------------------------------------------------------------------
\* The inbound-message handler, one operator per task
\* ------------------------------------------------------------------------
IsAuthentication(m) == m.type = "authentication" /\ m.token # NULL

\* mutant: the token is not persisted
persistAuthData_noToken(w, m) ==
  LET w1 == removeItem(setItem(w, "isTokenInherit", "true"), "isCredentialLogin")
      w3 == setItemIf(w1, "paloma_accid", m.ids.accid)
      w4 == setItemIf(w3, "paloma_apid", m.ids.apid)
      w5 == setItemIf(w4, "paloma_employeeid", m.ids.employeeid)
  IN setItemIf(w5, "paloma_wpid", m.ids.wpid)

\* "Save all authentication data to sessionStorage"
persistAuthData(w, m) ==
  LET w1 == removeItem(setItem(w, "isTokenInherit", "true"), "isCredentialLogin")
      w2 == setItemIf(w1, "paloma_token", m.token)
      w3 == setItemIf(w2, "paloma_accid", m.ids.accid)
      w4 == setItemIf(w3, "paloma_apid", m.ids.apid)
      w5 == setItemIf(w4, "paloma_employeeid", m.ids.employeeid)
  IN setItemIf(w5, "paloma_wpid", m.ids.wpid)

\* theme and language with their defaults, and the custom API url
applyPreferences(w, m) ==
  LET w1 == [w EXCEPT !.theme = OrElse(m.theme, "system"),
                      !.language = OrElse(m.language, "en")]
  IN IF m.customUrl # NULL
     THEN setItem([w1 EXCEPT !.apiUrl = m.customUrl],
                  "paloma_customUrl", m.customUrl)
     ELSE w1

\* mutant: the else branch navigates without clearing the inheritance flags
handlerReceive_elseKeepsFlag(w, m) ==
  IF IsAuthentication(m)
  THEN [applyPreferences(persistAuthData(w, m), m)
          EXCEPT !.isTokenInheriting = TRUE,
                 !.auth.isTokenInheriting = TRUE]
  ELSE navigate(w, "/login")

\* from the message event to the first await (or to the end, else branch)
handlerReceive(w, m) ==
  IF IsAuthentication(m)
  THEN [applyPreferences(persistAuthData(w, m), m)
          EXCEPT !.isTokenInheriting = TRUE,
                 !.auth.isTokenInheriting = TRUE]
  ELSE navigate([w EXCEPT !.isTokenInheriting = FALSE,
                          !.auth.isTokenInheriting = FALSE], "/login")

\* mutant: the exposed flag is not turned off after the currency fetch
handlerAfterCurrency_keepInheriting(w, m, reply) ==
  LET w1 == fetchAndStoreCurrency(w, reply)
  IN [w1 EXCEPT !.auth = [token |-> m.token,
                          accid |-> m.ids.accid,
                          apid |-> m.ids.apid,
                          employeeid |-> m.ids.employeeid,
                          wpid |-> m.ids.wpid,
                          isTokenInheriting |-> FALSE,
                          isAuthenticated |-> TRUE,
                          isCredentialLogin |-> FALSE]]

\* from the resolution of the currency request to the await of the
\* session request
handlerAfterCurrency(w, m, reply) ==
  LET w1 == fetchAndStoreCurrency(w, reply)
  IN [w1 EXCEPT !.auth = [token |-> m.token,
                          accid |-> m.ids.accid,
                          apid |-> m.ids.apid,
                          employeeid |-> m.ids.employeeid,
                          wpid |-> m.ids.wpid,
                          isTokenInheriting |-> FALSE,
                          isAuthenticated |-> TRUE,
                          isCredentialLogin |-> FALSE],
                !.isTokenInheriting = FALSE]

\* from the resolution of the session request to the end of the handler
\* (fetchSessionData catches its own errors, so the try block completes)
handlerAfterSession(w, reply) ==
  navigate(fetchSessionData(w, reply), "/dashboard")

\* ------------------------------------------------------------------------
\* login(), one operator per task, and its caller Login.handleSubmit
\* ------------------------------------------------------------------------
\* mutant: login() leaves the inheritance flag in storage
loginStart_keepsInherit(w) ==
  [setItem(w, "isCredentialLogin", "true") EXCEPT !.apiUrl = palomaURL]

\* login(): the statements before the await of the getToken request
loginStart(w) ==
  [setItem(removeItem(w, "isTokenInherit"), "isCredentialLogin", "true")
     EXCEPT !.apiUrl = palomaURL]

\* mutant: the `if (!data.token) return false` test is missing
loginAfterGetToken_noTokenTest(w, data) ==
  IF data.kind = "reject" THEN w
  ELSE LET w1 == setItem(w, "paloma_token", data.token)
       IN [w1 EXCEPT !.auth = [token |-> data.token,
                               accid |-> data.ids.accid,
                               apid |-> data.ids.apid,
                               employeeid |-> data.ids.employeeid,
                               wpid |-> data.ids.wpid,
                               isAuthenticated |-> TRUE,
                               isTokenInheriting |-> FALSE,
                               isCredentialLogin |-> TRUE]]

\* data.token present: persist and publish the session
loginAfterGetToken(w, data) ==
  IF data.kind # "ok" THEN w
  ELSE LET w1 == setItem(w, "paloma_token", data.token)
           w2 == setItem(w1, "paloma_accid", OrElse(data.ids.accid, ""))
           w3 == setItem(w2, "paloma_apid", OrElse(data.ids.apid, ""))
           w4 == setItem(w3, "paloma_employeeid", OrElse(data.ids.employeeid, ""))
           w5 == setItem(w4, "paloma_wpid", OrElse(data.ids.wpid, ""))
       IN [w5 EXCEPT !.auth = [token |-> data.token,
                               accid |-> data.ids.accid,
                               apid |-> data.ids.apid,
                               employeeid |-> data.ids.employeeid,
                               wpid |-> data.ids.wpid,
                               isAuthenticated |-> TRUE,
                               isTokenInheriting |-> FALSE,
                               isCredentialLogin |-> TRUE]]

loginAfterCurrency(w, reply) == fetchAndStoreCurrency(w, reply)

\* fetchSessionData returns, login resolves to true and handleSubmit
\* navigates to '/'
loginAfterSession(w, reply) == navigate(fetchSessionData(w, reply), "/")

\* the flags the context value exposes (contextValue)
AuthFlags ==
  [isAuthenticated |-> auth.isAuthenticated,
   isTokenInheriting |-> isTokenInheriting,
   isCredentialLogin |-> auth.isCredentialLogin]

\* ------------------------------------------------------------------------
\* IframeContainer
\* ------------------------------------------------------------------------
\* `${urlObj.protocol}//${urlObj.host}`
getBaseUrl(url) == [protocol |-> url.protocol, host |-> url.host]

\* urlObj.pathname + urlObj.search + urlObj.hash, as its three parts
getPathFromUrl(url) == <<url.pathname, url.search, url.hash>>

\* the first render and the first run of the url effect: useState(url),
\* then the branch "Initial load - set src"
mountFrame(url) ==
  [mounted |-> TRUE, url |-> url, iframeSrc |-> url, prevUrl |-> url,
   prevBaseUrl |-> getBaseUrl(url), loaded |-> FALSE, received |-> NULL,
   window |-> TRUE]

\* a change of the src attribute loads a new document into the iframe
setIframeSrc(f, url) ==
  IF f.iframeSrc = url THEN f
  ELSE [f EXCEPT !.iframeSrc = url, !.loaded = FALSE, !.received = NULL]

routeChange(url) ==
  [type |-> "route-change", path |-> getPathFromUrl(url), fullUrl |-> url]

\* mutant: a route change inside the same app also sets the src
urlEffect_reloadOnPath(f, url) ==
  LET currentBaseUrl == getBaseUrl(url)
      f1 == [f EXCEPT !.url = url]
  IN IF f.prevBaseUrl # NoBaseUrl /\ f.prevBaseUrl # currentBaseUrl
     THEN [frame |-> [setIframeSrc(f1, url) EXCEPT !.prevBaseUrl = currentBaseUrl,
                                                   !.prevUrl = url],
           posted |-> <<>>]
     ELSE IF f.prevUrl # NoUrl /\ f.prevUrl # url /\ f.prevBaseUrl = currentBaseUrl
     THEN [frame |-> [setIframeSrc(f1, url) EXCEPT !.prevUrl = url],
           posted |-> IF f.window THEN <<routeChange(url)>> ELSE <<>>]
     ELSE IF f.prevUrl = NoUrl
     THEN [frame |-> [setIframeSrc(f1, url) EXCEPT !.prevBaseUrl = currentBaseUrl,
                                                   !.prevUrl = url],
           posted |-> <<>>]
     ELSE [frame |-> f1, posted |-> <<>>]

\* mutant: the base-URL branch does not record the new base URL
urlEffect_staleBase(f, url) ==
  LET currentBaseUrl == getBaseUrl(url)
      f1 == [f EXCEPT !.url = url]
  IN IF f.prevBaseUrl # NoBaseUrl /\ f.prevBaseUrl # currentBaseUrl
     THEN [frame |-> [setIframeSrc(f1, url) EXCEPT !.prevUrl = url],
           posted |-> <<>>]
     ELSE IF f.prevUrl # NoUrl /\ f.prevUrl # url /\ f.prevBaseUrl = currentBaseUrl
     THEN [frame |-> [f1 EXCEPT !.prevUrl = url],
           posted |-> IF f.window THEN <<routeChange(url)>> ELSE <<>>]
     ELSE IF f.prevUrl = NoUrl
     THEN [frame |-> [setIframeSrc(f1, url) EXCEPT !.prevBaseUrl = currentBaseUrl,
                                                   !.prevUrl = url],
           posted |-> <<>>]
     ELSE [frame |-> f1, posted |-> <<>>]

\* mutant: a change of the base URL records the URL and leaves the src
urlEffect_keepSrc(f, url) ==
  LET currentBaseUrl == getBaseUrl(url)
      f1 == [f EXCEPT !.url = url]
  IN IF f.prevBaseUrl # NoBaseUrl /\ f.prevBaseUrl # currentBaseUrl
     THEN [frame |-> [f1 EXCEPT !.prevBaseUrl = currentBaseUrl, !.prevUrl = url],
           posted |-> <<>>]
     ELSE IF f.prevUrl # NoUrl /\ f.prevUrl # url /\ f.prevBaseUrl = currentBaseUrl
     THEN [frame |-> [f1 EXCEPT !.prevUrl = url],
           posted |-> IF f.window THEN <<routeChange(url)>> ELSE <<>>]
     ELSE IF f.prevUrl = NoUrl
     THEN [frame |-> [setIframeSrc(f1, url) EXCEPT !.prevBaseUrl = currentBaseUrl,
                                                   !.prevUrl = url],
           posted |-> <<>>]
     ELSE [frame |-> f1, posted |-> <<>>]

\* mutant: without a window the URL is kept for a later attempt
urlEffect_retryLater(f, url) ==
  LET currentBaseUrl == getBaseUrl(url)
      f1 == [f EXCEPT !.url = url]
  IN IF f.prevBaseUrl # NoBaseUrl /\ f.prevBaseUrl # currentBaseUrl
     THEN [frame |-> [setIframeSrc(f1, url) EXCEPT !.prevBaseUrl = currentBaseUrl,
                                                   !.prevUrl = url],
           posted |-> <<>>]
     ELSE IF f.prevUrl # NoUrl /\ f.prevUrl # url /\ f.prevBaseUrl = currentBaseUrl
     THEN IF f.window
          THEN [frame |-> [f1 EXCEPT !.prevUrl = url],
                posted |-> <<routeChange(url)>>]
          ELSE [frame |-> f1, posted |-> <<>>]
     ELSE IF f.prevUrl = NoUrl
     THEN [frame |-> [setIframeSrc(f1, url) EXCEPT !.prevBaseUrl = currentBaseUrl,
                                                   !.prevUrl = url],
           posted |-> <<>>]
     ELSE [frame |-> f1, posted |-> <<>>]

\* the url effect, run after a render with a new url prop
urlEffect(f, url) ==
  LET currentBaseUrl == getBaseUrl(url)
      f1 == [f EXCEPT !.url = url]
  IN IF f.prevBaseUrl # NoBaseUrl /\ f.prevBaseUrl # currentBaseUrl
     THEN [frame |-> [setIframeSrc(f1, url) EXCEPT !.prevBaseUrl = currentBaseUrl,
                                                   !.prevUrl = url],
           posted |-> <<>>]
     ELSE IF f.prevUrl # NoUrl /\ f.prevUrl # url /\ f.prevBaseUrl = currentBaseUrl
     THEN [frame |-> [f1 EXCEPT !.prevUrl = url],
           posted |-> IF f.window THEN <<routeChange(url)>> ELSE <<>>]
     ELSE IF f.prevUrl = NoUrl
     THEN [frame |-> [setIframeSrc(f1, url) EXCEPT !.prevBaseUrl = currentBaseUrl,
                                                   !.prevUrl = url],
           posted |-> <<>>]
     ELSE [frame |-> f1, posted |-> <<>>]

\* the authentication message of handleLoad
authenticationMessage(a, sd, customUrl) ==
  [type |-> "authentication", token |-> a.token, accid |-> a.accid,
   apid |-> a.apid, employeeid |-> a.employeeid, wpid |-> a.wpid,
   sessionData |-> sd, customUrl |-> customUrl]

\* mutant: the message is posted whether or not there is a token
handleLoad_noTokenTest(a, sd, customUrl) ==
  <<authenticationMessage(a, sd, customUrl)>>

\* handleLoad: the messages it posts, from the state of the last render
handleLoad(a, sd, customUrl) ==
  IF a.token # NULL THEN <<authenticationMessage(a, sd, customUrl)>> ELSE <<>>

\* ------------------------------------------------------------------------
\* The Dashboard page and the app registry
\* ------------------------------------------------------------------------
AppUrl(host, pathname) ==
  [protocol |-> "https:", host |-> host, pathname |-> pathname,
   search |-> "", hash |-> ""]

\* the first apps of the registry
apps ==
  << [id |-> "dashboard", url |-> AppUrl("dashboard.apps.palomapos.com", "/")],
     [id |-> "timeclock", url |-> AppUrl("timeclock.apps.palomapos.com", "/")],
     [id |-> "orders", url |-> AppUrl("order.out.apps.palomapos.com", "/")] >>

AppIds == {apps[i].id : i \in DOMAIN apps}

\* the result of a find() that found nothing
NoApp == [id |-> NULL, url |-> NoUrl]

NoSubItem == [id |-> NULL, path |-> NULL, url |-> NoUrl]

getAppById(id) ==
  IF \E i \in DOMAIN apps : apps[i].id = id
  THEN apps[CHOOSE i \in DOMAIN apps :
              /\ apps[i].id = id
              /\ \A j \in DOMAIN apps : apps[j].id = id => i <= j]
  ELSE NoApp

getDefaultApp == apps[1]

\* the first sub-items of the dashboard app
dashboardSubRoutes ==
  << [id |-> "dashboard-main", path |-> "/dashboard",
      url |-> AppUrl("dashboard.apps.palomapos.com", "/")],
     [id |-> "orders-report", path |-> "/reports/orders",
      url |-> AppUrl("dashboard.apps.palomapos.com", "/reports/orders")],
     [id |-> "items-report", path |-> "/reports/items",
      url |-> AppUrl("dashboard.apps.palomapos.com", "/reports/items")] >>

SubItems == {dashboardSubRoutes[i] : i \in DOMAIN dashboardSubRoutes}

\* the paths of the routes that render the Dashboard
DashboardPaths == {"/", "/dashboard", "/reports/orders", "/reports/items"}

getSubRouteByPath(path) ==
  IF \E r \in SubItems : r.path = path
  THEN CHOOSE r \in SubItems : r.path = path
  ELSE NoSubItem

getSubRouteById(id) ==
  IF \E r \in SubItems : r.id = id
  THEN CHOOSE r \in SubItems : r.id = id
  ELSE NoSubItem

\* no Dashboard is rendered
NoDashboard ==
  [variant |-> NULL, pathname |-> NULL, activeAppId |-> NULL,
   activeSubItem |-> NoSubItem]

\* the Dashboard without sub-items: useState(getDefaultApp().id)
initialDashboard(pathname) ==
  [variant |-> "apps", pathname |-> pathname,
   activeAppId |-> getDefaultApp.id, activeSubItem |-> NoSubItem]

\* the Dashboard without sub-items: handleAppSelect
handleAppSelect(d, appId) ==
  [d EXCEPT !.activeAppId = appId,
            !.pathname = IF appId = "dashboard" THEN "/dashboard" ELSE @]

\* the Dashboard with sub-items: the effect that follows location.pathname
syncSubItem(d) ==
  LET subRoute == getSubRouteByPath(d.pathname)
  IN IF subRoute # NoSubItem /\ d.activeAppId = "dashboard"
     THEN [d EXCEPT !.activeSubItem = subRoute]
     ELSE IF d.pathname = "/dashboard" \/ d.pathname = "/"
     THEN [d EXCEPT !.activeSubItem = getSubRouteById("dashboard-main")]
     ELSE d

\* the effect runs when location.pathname or activeAppId has changed
syncAfter(d, d1) ==
  IF d1.pathname # d.pathname \/ d1.activeAppId # d.activeAppId
  THEN syncSubItem(d1)
  ELSE d1

\* the Dashboard with sub-items: the two useState initialisers and the
\* first run of the effect
initialSubItemDashboard(pathname) ==
  LET subRoute == getSubRouteByPath(pathname)
  IN syncSubItem([variant |-> "subItems", pathname |-> pathname,
                  activeAppId |-> getDefaultApp.id,
                  activeSubItem |-> IF subRoute # NoSubItem THEN subRoute
                                    ELSE getSubRouteById("dashboard-main")])

\* the Dashboard with sub-items: handleAppSelect, then the effect
handleAppSelect_subItems(d, appId) ==
  LET defaultSubRoute == getSubRouteById("dashboard-main")
  IN syncAfter(d,
       IF appId = "dashboard"
       THEN IF defaultSubRoute # NoSubItem
            THEN [d EXCEPT !.activeAppId = appId,
                           !.activeSubItem = defaultSubRoute,
                           !.pathname = defaultSubRoute.path]
            ELSE [d EXCEPT !.activeAppId = appId, !.pathname = "/dashboard"]
       ELSE [d EXCEPT !.activeAppId = appId, !.activeSubItem = NoSubItem])

\* the Dashboard with sub-items: handleSubItemSelect, then the effect
handleSubItemSelect(d, appId, subItem) ==
  syncAfter(d, [d EXCEPT !.activeAppId = appId, !.activeSubItem = subItem,
                          !.pathname = subItem.path])

\* mutant: the url of the active app, whatever the active sub-item
currentUrl_appOnly(d) ==
  LET app == getAppById(d.activeAppId)
  IN IF app # NoApp THEN app.url ELSE getDefaultApp.url

\* the url prop the Dashboard passes to the IframeContainer
currentUrl(d) ==
  IF d.variant = "subItems" /\ d.activeAppId = "dashboard"
     /\ d.activeSubItem # NoSubItem
  THEN d.activeSubItem.url
  ELSE LET app == getAppById(d.activeAppId)
       IN IF app # NoApp THEN app.url ELSE getDefaultApp.url

\* ------------------------------------------------------------------------
\* The documentation API (serverless handlers)
\* ------------------------------------------------------------------------
\* JavaScript truthiness of a string that may be absent
Truthy(v) == v # NULL /\ v # ""

\* request methods, keys (absent, empty, two values) and file names
DocsMethods == {"GET", "POST"}

DocsKeys == {NULL, "", "k1", "k2"}

DocsFilenames == {NULL, "ROUTING.md", "MISSING.md", "../ROUTING.md"}

\* process.env.DOCS_API_KEY, and the state of the docs_unified directory
DocsEnvs ==
  [DOCS_API_KEY : {NULL, "", "k1"}, dirExists : BOOLEAN, readFails : BOOLEAN]

\* requests of the routes without a file name, and of the file route
DocsRequests ==
  [method : DocsMethods, queryKey : DocsKeys, headerKey : DocsKeys,
   filename : {NULL}, env : DocsEnvs]

DocsFileRequests ==
  [method : DocsMethods, queryKey : DocsKeys, headerKey : DocsKeys,
   filename : DocsFilenames, env : DocsEnvs]

\* path.basename of the sample file names
basename(filename) ==
  IF filename = "../ROUTING.md" THEN "ROUTING.md" ELSE filename

\* fs.existsSync of a file of docs_unified
fileExists(env, name) == env.dirExists /\ name = "ROUTING.md"

DocsError(status, error) ==
  [status |-> status, success |-> FALSE, data |-> NULL, error |-> error]

DocsOk(data) ==
  [status |-> 200, success |-> TRUE, data |-> data, error |-> NULL]

\* GET /api/docs: the list of the documentation files
listHandler(req) ==
  LET apiKey == IF Truthy(req.queryKey) THEN req.queryKey ELSE req.headerKey
      expectedKey == req.env.DOCS_API_KEY
  IN IF req.method # "GET" THEN DocsError(405, "Method not allowed")
     ELSE IF ~Truthy(expectedKey) THEN DocsError(500, "API key not configured")
     ELSE IF ~Truthy(apiKey) \/ apiKey # expectedKey
     THEN DocsError(401, "Unauthorized - Invalid API key")
     ELSE IF ~req.env.dirExists
     THEN DocsError(404, "Documentation directory not found")
     ELSE IF req.env.readFails
     THEN DocsError(500, "Error reading documentation directory")
     ELSE DocsOk("files")

\* mutant: the key of the header is preferred to the one of the query
allHandler_headerFirst(req) ==
  LET apiKey == IF Truthy(req.headerKey) THEN req.headerKey ELSE req.queryKey
      expectedKey == req.env.DOCS_API_KEY
  IN IF req.method # "GET" THEN DocsError(405, "Method not allowed")
     ELSE IF ~Truthy(expectedKey) THEN DocsError(500, "API key not configured")
     ELSE IF ~Truthy(apiKey) \/ apiKey # expectedKey
     THEN DocsError(401, "Unauthorized - Invalid API key")
     ELSE IF ~req.env.dirExists
     THEN DocsError(404, "Documentation directory not found")
     ELSE IF req.env.readFails
     THEN DocsError(500, "Error reading documentation files")
     ELSE DocsOk("documentation")

\* GET /api/docs/all: every documentation file with its content
allHandler(req) ==
  LET apiKey == IF Truthy(req.queryKey) THEN req.queryKey ELSE req.headerKey
      expectedKey == req.env.DOCS_API_KEY
  IN IF req.method # "GET" THEN DocsError(405, "Method not allowed")
     ELSE IF ~Truthy(expectedKey) THEN DocsError(500, "API key not configured")
     ELSE IF ~Truthy(apiKey) \/ apiKey # expectedKey
     THEN DocsError(401, "Unauthorized - Invalid API key")
     ELSE IF ~req.env.dirExists
     THEN DocsError(404, "Documentation directory not found")
     ELSE IF req.env.readFails
     THEN DocsError(500, "Error reading documentation files")
     ELSE DocsOk("documentation")

\* GET /api/docs/:filename: one documentation file
fileHandler(req) ==
  LET apiKey == IF Truthy(req.queryKey) THEN req.queryKey ELSE req.headerKey
      expectedKey == req.env.DOCS_API_KEY
  IN IF req.method # "GET" THEN DocsError(405, "Method not allowed")
     ELSE IF ~Truthy(expectedKey) THEN DocsError(500, "API key not configured")
     ELSE IF ~Truthy(apiKey) \/ apiKey # expectedKey
     THEN DocsError(401, "Unauthorized - Invalid API key")
     ELSE IF ~Truthy(req.filename) THEN DocsError(400, "Filename is required")
     ELSE IF ~Truthy(basename(req.filename)) \/ basename(req.filename) # req.filename
     THEN DocsError(400, "Invalid filename")
     ELSE IF ~fileExists(req.env, basename(req.filename))
     THEN DocsError(404, "Documentation file not found")
     ELSE IF req.env.readFails
     THEN DocsError(500, "Error reading documentation file")
     ELSE DocsOk("file")

\* no request has been served
NoExchange ==
  [endpoint |-> NULL,
   request |-> [method |-> NULL, queryKey |-> NULL, headerKey |-> NULL,
                filename |-> NULL,
                env |-> [DOCS_API_KEY |-> NULL, dirExists |-> FALSE,
                         readFails |-> FALSE]],
   response |-> DocsError(0, NULL)]

\* ------------------------------------------------------------------------
\* Initial state: a fresh tab on the login page
\* ------------------------------------------------------------------------
NoHandlerMessage == [token |-> NULL, ids |-> NoIds]

Init ==
  /\ sessionStorage = EmptyStorage
  /\ currency = NULL
  /\ auth = InitialAuth(EmptyStorage)
  /\ isTokenInheriting = InitialIsTokenInheriting(EmptyStorage)
  /\ sessionData = NoSessionData
  /\ theme = "dark"
  /\ language = "en"
  /\ apiUrl = palomaURL
  /\ navs = <<>>
  /\ hpc = [h \in Handlers |-> "idle"]
  /\ hmsg = [h \in Handlers |-> NoHandlerMessage]
  /\ lpc = "idle"
  /\ ldata = NoReply
  /\ lastTask = NoEvent
  /\ frame = Unmounted
  /\ posted = <<>>
  /\ docs = NoExchange
  /\ dashboard = NoDashboard

HandlerVars == <<hpc, hmsg>>
LoginVars == <<lpc, ldata>>

FreeSlot(h) ==
  /\ hpc[h] = "idle"
  /\ \A g \in Handlers : g < h => hpc[g] # "idle"

\* a task of the provider or of the login page: it posts nothing to the
\* iframe
Task(op, who, token, reply) ==
  /\ lastTask' = [op |-> op, who |-> who, token |-> token, reply |-> reply]
  /\ posted' = <<>>
  /\ docs' = docs

\* a task of the IframeContainer
FrameTask(op, f, msgs) ==
  /\ lastTask' = [op |-> op, who |-> 0, token |-> NULL, reply |-> NULL]
  /\ frame' = f
  /\ posted' = msgs
  /\ navs' = <<>>
  /\ docs' = docs

\* The invocations of the message handler that are suspended at an await
\* are interchangeable (none knows of another), so the slots are kept in one
\* canonical order: by position in the handler, then by token, idle last.
MessageTokens == <<"t1", "t2">>

Rank(pc, msg) ==
  IF pc = "idle" THEN 0
  ELSE (IF pc = "session" THEN Len(MessageTokens) ELSE 0)
       + (CHOOSE i \in 1..Len(MessageTokens) : MessageTokens[i] = msg.token)

\* the slots as one array, and the array without the invocation in slot h
Slots == [i \in Handlers |-> [pc |-> hpc[i], msg |-> hmsg[i]]]

RemoveSlot(hs, h) ==
  [i \in Handlers |->
     IF i < h THEN hs[i]
     ELSE IF i < MaxHandlers THEN hs[i + 1]
     ELSE [pc |-> "idle", msg |-> NoHandlerMessage]]

\* where an invocation in state `item` goes (before its equals)
SlotOf(hs, item) ==
  1 + Cardinality({i \in Handlers :
                     Rank(hs[i].pc, hs[i].msg) > Rank(item.pc, item.msg)})

InsertSlot(hs, item, k) ==
  [i \in Handlers |->
     IF i < k THEN hs[i] ELSE IF i = k THEN item ELSE hs[i - 1]]

\* the task `op` of the invocation in slot h, which leaves it at pc with msg
HandlerTask(h, pc, msg, op, token, reply) ==
  \E item \in {[pc |-> pc, msg |-> msg]} :
    \E rest \in {RemoveSlot(Slots, h)} :
      \E k \in {SlotOf(rest, item)} :
        \E hs \in {IF pc = "idle" THEN rest ELSE InsertSlot(rest, item, k)} :
          /\ hpc' = [i \in Handlers |-> hs[i].pc]
          /\ hmsg' = [i \in Handlers |-> hs[i].msg]
          /\ Task(op, k, token, reply)

\* ------------------------------------------------------------------------
\* Actions
\* ------------------------------------------------------------------------
\* a window message that starts an inheritance (type authentication, token)
ReceiveAuthentication(h, m) ==
  /\ IsAuthentication(m)
  /\ FreeSlot(h)
  /\ Commit(handlerReceive(World, m))
  /\ HandlerTask(h, "currency", [token |-> m.token, ids |-> m.ids],
                 "ReceiveAuthentication", m.token, NULL)
  /\ UNCHANGED <<LoginVars, frame, dashboard>>

\* any other window message: the handler runs its else branch and ends
\* (the task records whether isTokenInheriting was true when it arrived)
ReceiveOther(m) ==
  /\ ~IsAuthentication(m)
  /\ Commit(handlerReceive(World, m))
  /\ Task("ReceiveOther", 0, NULL,
          IF isTokenInheriting THEN "inheriting" ELSE "notInheriting")
  /\ UNCHANGED <<HandlerVars, LoginVars, frame, dashboard>>

HandlerCurrencyReply(h, reply) ==
  /\ hpc[h] = "currency"
  /\ Commit(handlerAfterCurrency(World, hmsg[h], reply))
  /\ HandlerTask(h, "session", hmsg[h],
                 "HandlerCurrencyReply", hmsg[h].token, NULL)
  /\ UNCHANGED <<LoginVars, frame, dashboard>>

\* the handler ends
HandlerSessionReply(h, reply) ==
  /\ hpc[h] = "session"
  /\ Commit(handlerAfterSession(World, reply))
  /\ HandlerTask(h, "idle", NoHandlerMessage,
                 "HandlerSessionReply", hmsg[h].token, reply.kind)
  /\ UNCHANGED <<LoginVars, frame, dashboard>>

\* Login.handleSubmit: the form is rendered only while the user is neither
\* authenticated nor inheriting, and is disabled while a login is in flight
LoginSubmit ==
  /\ lpc = "idle"
  /\ ~auth.isAuthenticated
  /\ ~isTokenInheriting
  /\ Commit(loginStart(World))
  /\ lpc' = "getToken"
  /\ Task("LoginSubmit", 0, NULL, NULL)
  /\ UNCHANGED <<ldata, HandlerVars, frame, dashboard>>

\* data.token missing or the request rejected: login resolves to false
LoginGetTokenReply(data) ==
  /\ lpc = "getToken"
  /\ Commit(loginAfterGetToken(World, data))
  /\ lpc' = IF data.kind = "ok" THEN "currency" ELSE "idle"
  /\ ldata' = IF data.kind = "ok" THEN data ELSE NoReply
  /\ Task("LoginGetTokenReply", 0, data.token, data.kind)
  /\ UNCHANGED <<HandlerVars, frame, dashboard>>

LoginCurrencyReply(reply) ==
  /\ lpc = "currency"
  /\ Commit(loginAfterCurrency(World, reply))
  /\ lpc' = "session"
  /\ Task("LoginCurrencyReply", 0, ldata.token, NULL)
  /\ UNCHANGED <<ldata, HandlerVars, frame, dashboard>>

\* login resolves to true
LoginSessionReply(reply) ==
  /\ lpc = "session"
  /\ Commit(loginAfterSession(World, reply))
  /\ lpc' = "idle"
  /\ ldata' = NoReply
  /\ Task("LoginSessionReply", 0, ldata.token, reply.kind)
  /\ UNCHANGED <<HandlerVars, frame, dashboard>>

\* the Logout button of the dashboard, shown to a credential login
Logout ==
  /\ auth.isAuthenticated
  /\ auth.isCredentialLogin
  /\ Commit(logout(World))
  /\ Task("Logout", 0, NULL, NULL)
  /\ UNCHANGED <<HandlerVars, LoginVars, frame, dashboard>>

\* a page load in the same tab (reload, or the navigation logout issued):
\* every pending continuation is gone and the provider starts from storage
PageLoad ==
  /\ auth' = InitialAuth(sessionStorage)
  /\ isTokenInheriting' = InitialIsTokenInheriting(sessionStorage)
  /\ sessionData' = NoSessionData
  /\ apiUrl' = palomaURL
  /\ navs' = <<>>
  /\ hpc' = [h \in Handlers |-> "idle"]
  /\ hmsg' = [h \in Handlers |-> NoHandlerMessage]
  /\ lpc' = "idle"
  /\ ldata' = NoReply
  /\ frame' = Unmounted
  /\ dashboard' = NoDashboard
  /\ Task("PageLoad", 0, NULL, NULL)
  /\ UNCHANGED <<sessionStorage, currency, theme, language>>

\* the state of the providers, which a task of the IframeContainer reads
ProviderVars ==
  <<sessionStorage, currency, auth, isTokenInheriting, sessionData, theme,
    language, apiUrl, hpc, hmsg, lpc, ldata>>

\* a protected route renders the Dashboard and its IframeContainer
Mount(url) ==
  /\ ~frame.mounted
  /\ auth.isAuthenticated
  /\ FrameTask("Mount", mountFrame(url), <<>>)
  /\ UNCHANGED <<ProviderVars, dashboard>>

\* the Dashboard selects another app or sub-item: the url prop changes
SelectUrl(url) ==
  /\ frame.mounted
  /\ url # frame.url
  /\ LET r == urlEffect(frame, url)
     IN FrameTask("SelectUrl", r.frame, r.posted)
  /\ UNCHANGED <<ProviderVars, dashboard>>

\* the load event of the iframe (the document set by src, or a later
\* document the embedded application navigated to)
FrameLoad ==
  /\ frame.mounted
  /\ LET msgs == IF frame.window THEN handleLoad(auth, sessionData, apiUrl)
                 ELSE <<>>
     IN FrameTask("FrameLoad",
                  [frame EXCEPT !.loaded = TRUE,
                                !.received = IF msgs # <<>> THEN msgs[1].token
                                             ELSE NULL],
                  msgs)
  /\ UNCHANGED <<ProviderVars, dashboard>>

\* the route leaves the dashboard
Unmount ==
  /\ frame.mounted
  /\ FrameTask("Unmount", Unmounted, <<>>)
  /\ dashboard' = NoDashboard
  /\ UNCHANGED ProviderVars

Next ==
  \/ \E h \in Handlers, m \in InboundMessages : ReceiveAuthentication(h, m)
  \/ \E m \in InboundMessages : ReceiveOther(m)
  \/ \E h \in Handlers, r \in CurrencyReplies : HandlerCurrencyReply(h, r)
  \/ \E h \in Handlers, r \in SessionReplies : HandlerSessionReply(h, r)
  \/ LoginSubmit
  \/ \E d \in GetTokenReplies : LoginGetTokenReply(d)
  \/ \E r \in CurrencyReplies : LoginCurrencyReply(r)
  \/ \E r \in SessionReplies : LoginSessionReply(r)
  \/ Logout
  \/ PageLoad

Spec == Init /\ [][Next]_vars

\* The frame bridge with the session holder as its environment: inbound
\* messages are handled one at a time (one handler slot), next to a login()
\* call and the tasks of the IframeContainer.
FrameNext ==
  \/ \E m \in InboundMessages : ReceiveAuthentication(1, m)
  \/ \E m \in InboundMessages : ReceiveOther(m)
  \/ \E r \in CurrencyReplies : HandlerCurrencyReply(1, r)
  \/ \E r \in SessionReplies : HandlerSessionReply(1, r)
  \/ LoginSubmit
  \/ \E d \in GetTokenReplies : LoginGetTokenReply(d)
  \/ \E r \in CurrencyReplies : LoginCurrencyReply(r)
  \/ \E r \in SessionReplies : LoginSessionReply(r)
  \/ Logout
  \/ PageLoad
  \/ \E u \in Urls : Mount(u)
  \/ \E u \in Urls : SelectUrl(u)
  \/ FrameLoad
  \/ Unmount

FrameSpec == Init /\ [][FrameNext]_vars

\* The Dashboard page: a render with a new url prop runs the url effect of
\* the IframeContainer
Render(op, d) ==
  /\ dashboard' = d
  /\ \E url \in {currentUrl(d)} :
       IF url # frame.url
       THEN \E r \in {urlEffect(frame, url)} : FrameTask(op, r.frame, r.posted)
       ELSE FrameTask(op, frame, <<>>)
  /\ UNCHANGED ProviderVars

\* a protected route renders the Dashboard (either variant of the page)
MountDashboard(pathname) ==
  /\ ~frame.mounted
  /\ auth.isAuthenticated
  /\ dashboard' = initialDashboard(pathname)
  /\ FrameTask("Mount", mountFrame(currentUrl(dashboard')), <<>>)
  /\ UNCHANGED ProviderVars

MountSubItemDashboard(pathname) ==
  /\ ~frame.mounted
  /\ auth.isAuthenticated
  /\ dashboard' = initialSubItemDashboard(pathname)
  /\ FrameTask("Mount", mountFrame(currentUrl(dashboard')), <<>>)
  /\ UNCHANGED ProviderVars

\* a click on an app of the sidebar
AppSelect(appId) ==
  /\ frame.mounted
  /\ dashboard.variant = "apps"
  /\ Render("AppSelect", handleAppSelect(dashboard, appId))

\* a click on an app of the sidebar that shows sub-items: the first
\* sub-item of the dashboard app, or the app
AppClick(appId) ==
  /\ frame.mounted
  /\ dashboard.variant = "subItems"
  /\ IF appId = "dashboard"
     THEN Render("SubItemSelect",
                 handleSubItemSelect(dashboard, appId, dashboardSubRoutes[1]))
     ELSE Render("AppSelect", handleAppSelect_subItems(dashboard, appId))

\* a click on a sub-item of the dashboard app
SubItemSelect(subItem) ==
  /\ frame.mounted
  /\ dashboard.variant = "subItems"
  /\ Render("SubItemSelect", handleSubItemSelect(dashboard, "dashboard", subItem))

\* The Dashboard page with a login() call as its environment
DashboardNext ==
  \/ LoginSubmit
  \/ \E d \in GetTokenReplies : LoginGetTokenReply(d)
  \/ \E r \in CurrencyReplies : LoginCurrencyReply(r)
  \/ \E r \in SessionReplies : LoginSessionReply(r)
  \/ Logout
  \/ PageLoad
  \/ \E p \in DashboardPaths : MountDashboard(p)
  \/ \E p \in DashboardPaths : MountSubItemDashboard(p)
  \/ \E a \in AppIds : AppSelect(a)
  \/ \E a \in AppIds : AppClick(a)
  \/ \E i \in SubItems : SubItemSelect(i)
  \/ FrameLoad
  \/ Unmount

DashboardSpec == Init /\ [][DashboardNext]_vars

\* iframeRef.current.contentWindow becomes null, or a window again
WindowUnavailable ==
  /\ frame.mounted
  /\ frame.window
  /\ FrameTask("WindowUnavailable", [frame EXCEPT !.window = FALSE], <<>>)
  /\ UNCHANGED <<ProviderVars, dashboard>>

WindowAvailable ==
  /\ frame.mounted
  /\ ~frame.window
  /\ FrameTask("WindowAvailable", [frame EXCEPT !.window = TRUE], <<>>)
  /\ UNCHANGED <<ProviderVars, dashboard>>

\* The Dashboard page and an iframe whose window may be unavailable
WindowNext ==
  \/ LoginSubmit
  \/ \E d \in GetTokenReplies : LoginGetTokenReply(d)
  \/ \E r \in CurrencyReplies : LoginCurrencyReply(r)
  \/ \E r \in SessionReplies : LoginSessionReply(r)
  \/ Logout
  \/ PageLoad
  \/ \E p \in DashboardPaths : MountDashboard(p)
  \/ \E p \in DashboardPaths : MountSubItemDashboard(p)
  \/ \E a \in AppIds : AppSelect(a)
  \/ \E a \in AppIds : AppClick(a)
  \/ \E i \in SubItems : SubItemSelect(i)
  \/ FrameLoad
  \/ Unmount
  \/ WindowUnavailable
  \/ WindowAvailable

WindowSpec == Init /\ [][WindowNext]_vars

\* The documentation API: each request is served by its handler; the
\* handlers keep no state, the browser application is not involved.
BrowserVars ==
  <<ProviderVars, navs, lastTask, frame, posted, dashboard>>

ServeList(req) ==
  /\ docs' = [endpoint |-> "list", request |-> req, response |-> listHandler(req)]
  /\ UNCHANGED BrowserVars

ServeAll(req) ==
  /\ docs' = [endpoint |-> "all", request |-> req, response |-> allHandler(req)]
  /\ UNCHANGED BrowserVars

ServeFile(req) ==
  /\ docs' = [endpoint |-> "file", request |-> req, response |-> fileHandler(req)]
  /\ UNCHANGED BrowserVars

DocsNext ==
  \/ \E req \in DocsRequests : ServeList(req)
  \/ \E req \in DocsRequests : ServeAll(req)
  \/ \E req \in DocsFileRequests : ServeFile(req)

DocsSpec == Init /\ [][DocsNext]_vars

\* ------------------------------------------------------------------------
\* Vocabulary of the properties
\* ------------------------------------------------------------------------
\* login() has just resolved to true
LoginResolvedTrue == lastTask.op = "LoginSessionReply"

\* login() has just resolved to false (no token in the getToken reply, or
\* the catch block of login)
LoginResolvedFalse ==
  lastTask.op = "LoginGetTokenReply" /\ lastTask.reply \in {"notoken", "reject"}

\* an inbound-message handler has just accepted an authentication message
HandlerAccepted == lastTask.op = "ReceiveAuthentication"

\* an inbound-message handler has just resumed from its currency fetch
HandlerCurrencyResolved == lastTask.op = "HandlerCurrencyReply"

\* an inbound-message handler has just run to completion
HandlerCompleted == lastTask.op = "HandlerSessionReply"

\* the last task called logout(), directly or through handleTokenError()
LogoutCalled ==
  \/ lastTask.op = "Logout"
  \/ lastTask.op \in {"HandlerSessionReply", "LoginSessionReply"}
       /\ lastTask.reply = "invalid"

\* some handler is between accepting its message and its currency reply
InheritancePending == \E h \in Handlers : hpc[h] = "currency"

\* neither login() nor an inbound-message handler is suspended at an await
NoFlowInFlight == lpc = "idle" /\ \A h \in Handlers : hpc[h] = "idle"

\* the reply's account fields that login() got, by the token it carried
ReplyIds(token) ==
  (CHOOSE d \in GetTokenReplies : d.kind = "ok" /\ d.token = token).ids

\* a persisted field holds a reply field (absent: no key or the empty string)
Holds(stored, value) ==
  IF value = NULL THEN stored \in {NULL, ""} ELSE stored = value

\* ------------------------------------------------------------------------
\* Properties
\* ------------------------------------------------------------------------
\* C1: whenever login() resolves to true, the exposed AuthFlags are
\* isAuthenticated = true, isCredentialLogin = true, isTokenInheriting = false.
\* Fails: fetchSessionData logs the user out on the invalid-token reply and
\* login() still returns true.
Claim_C1 ==
  LoginResolvedTrue =>
    /\ AuthFlags.isAuthenticated
    /\ AuthFlags.isCredentialLogin
    /\ ~AuthFlags.isTokenInheriting

\* C2: after a login() whose getToken reply carried token T has resolved to
\* true, the persisted and the in-memory token equal T and the persisted
\* accid/apid/employeeid/wpid hold the reply's values.
Claim_C2 ==
  LoginResolvedTrue =>
    /\ sessionStorage["paloma_token"] = lastTask.token
    /\ auth.token = lastTask.token
    /\ Holds(sessionStorage["paloma_accid"], ReplyIds(lastTask.token).accid)
    /\ Holds(sessionStorage["paloma_apid"], ReplyIds(lastTask.token).apid)
    /\ Holds(sessionStorage["paloma_employeeid"], ReplyIds(lastTask.token).employeeid)
    /\ Holds(sessionStorage["paloma_wpid"], ReplyIds(lastTask.token).wpid)

\* C3 as stated: once the handler of {type:'authentication', token:T} has
\* run to completion the persisted paloma_token equals T.  Fails: the
\* invalid-token reply clears the storage, and a later message, login() or
\* logout writes the key while the handler is suspended.
Claim_C3 ==
  HandlerCompleted => sessionStorage["paloma_token"] = lastTask.token

\* C3 amended: the persisted paloma_token equals T once the synchronous part
\* of the handler has run (the fields are persisted before the first await),
\* whatever login() calls and other handlers are suspended at that moment.
Thm_C3 ==
  HandlerAccepted => sessionStorage["paloma_token"] = lastTask.token

\* a message is accepted while a login() and another handler are suspended
Witness_C3 ==
  /\ HandlerAccepted
  /\ sessionStorage["paloma_token"] = lastTask.token
  /\ lpc # "idle"
  /\ \E h \in Handlers : h # lastTask.who /\ hpc[h] # "idle"
       /\ hmsg[h].token # lastTask.token

\* C4 as stated: when the currency fetch and the session-metadata fetch of
\* an inbound authentication message have resolved, isTokenInheriting =
\* false and isAuthenticated = true.  Fails on the invalid-token reply.
Claim_C4 ==
  HandlerCompleted => (~isTokenInheriting /\ auth.isAuthenticated)

\* C4 amended: once the currency fetch has resolved, isTokenInheriting =
\* false and isAuthenticated = true; once the session-metadata fetch has
\* resolved, isAuthenticated is true after a data reply and false after the
\* invalid-token reply, and isTokenInheriting is false unless another
\* authentication message is still awaiting its currency fetch.
Thm_C4 ==
  /\ HandlerCurrencyResolved => (~isTokenInheriting /\ auth.isAuthenticated)
  /\ (HandlerCompleted /\ lastTask.reply \in {"row", "norow"}) => auth.isAuthenticated
  /\ (HandlerCompleted /\ lastTask.reply = "invalid") => ~auth.isAuthenticated
  /\ (HandlerCompleted /\ ~InheritancePending) => ~isTokenInheriting

\* a handler completes on a data reply after a logout hit it in flight
Witness_C4 ==
  /\ HandlerCompleted
  /\ lastTask.reply = "row"
  /\ auth.isAuthenticated
  /\ auth.token = NULL
  /\ ~isTokenInheriting

\* C5 as stated: while an inbound authentication message is processed,
\* isTokenInheriting is true from the moment the message is accepted until
\* both fetches have resolved: after each step of the handler that leaves
\* it suspended at an await the flag is true.  Fails: the flag is turned
\* off when the currency fetch resolves, before the session-metadata fetch.
Claim_C5 ==
  \A h \in Handlers :
    (/\ hpc[h] # "idle"
     /\ lastTask.who = h
     /\ lastTask.op \in {"ReceiveAuthentication", "HandlerCurrencyReply"})
    => isTokenInheriting

\* C5 amended: isTokenInheriting goes false -> true -> false: it is true
\* when the message has been accepted and it is turned off when the
\* currency fetch has resolved, while the session-metadata fetch is still
\* pending; during that fetch it stays off unless another authentication
\* message has been accepted.
Thm_C5 ==
  /\ HandlerAccepted => (isTokenInheriting /\ hpc[lastTask.who] = "currency")
  /\ HandlerCurrencyResolved => (~isTokenInheriting /\ hpc[lastTask.who] = "session")
  /\ ((\E h \in Handlers : hpc[h] = "session") /\ ~InheritancePending)
       => ~isTokenInheriting

\* the flag is off while the session-metadata fetch is pending
Witness_C5 ==
  /\ HandlerCurrencyResolved
  /\ hpc[lastTask.who] = "session"
  /\ ~isTokenInheriting

\* C6 as stated: in every reachable state isAuthenticated and
\* isTokenInheriting are not both true.  Fails: an authentication message
\* received by an authenticated provider sets isTokenInheriting and leaves
\* isAuthenticated true.
Claim_C6 == ~(auth.isAuthenticated /\ isTokenInheriting)

\* C6 amended: isAuthenticated and isTokenInheriting are not both true
\* except while an authentication message is awaiting its currency fetch;
\* once no inheritance is pending, isAuthenticated implies that
\* isTokenInheriting is false.
Thm_C6 ==
  ~InheritancePending => ~(auth.isAuthenticated /\ isTokenInheriting)

\* authenticated by an inheritance that has resolved
Witness_C6 ==
  /\ ~InheritancePending
  /\ auth.isAuthenticated
  /\ ~auth.isCredentialLogin
  /\ sessionStorage["isTokenInherit"] = "true"

\* C7: after logout() sessionStorage contains no key with the prefix
\* paloma_ and localStorage contains no currency key.  Fails: clearStorage
\* removes the STORAGE_KEYS only, paloma_customUrl is not one of them.
Claim_C7 ==
  LogoutCalled =>
    /\ \A k \in PalomaKeys : sessionStorage[k] = NULL
    /\ currency = NULL

\* C8: after logout() the context exposes token = null, isAuthenticated =
\* false, isTokenInheriting = false, isCredentialLogin = false, sessionData
\* = null, and a full-page navigation to /login has been issued.  Fails:
\* logout resets auth.isTokenInheriting but not the exposed flag.
Claim_C8 ==
  LogoutCalled =>
    /\ auth.token = NULL
    /\ ~AuthFlags.isAuthenticated
    /\ ~AuthFlags.isTokenInheriting
    /\ ~AuthFlags.isCredentialLogin
    /\ sessionData = NoSessionData
    /\ \E i \in 1..Len(navs) : navs[i] = [path |-> "/login", full |-> TRUE]

\* C9: whenever the session endpoint replies {message:'Token is invalid',
\* error:'102'}, to login() or to the inbound handler, the user is logged
\* out (session keys cleared, isAuthenticated = false) and the last
\* navigation issued by that flow is to /login.  Fails: the flow goes on
\* after handleTokenError and navigates to /dashboard (handler) or / (login).
Claim_C9 ==
  (lastTask.op \in {"HandlerSessionReply", "LoginSessionReply"}
     /\ lastTask.reply = "invalid")
  => /\ \A k \in STORAGE_KEYS : sessionStorage[k] = NULL
     /\ ~auth.isAuthenticated
     /\ navs # <<>>
     /\ navs[Len(navs)].path = "/login"

\* C10: within one provider instance isAuthenticated changes from false to
\* true only in a step of a credential login or of an inbound authentication
\* handler, and from true to false only by logout or handleTokenError; and
\* after a logout it stays false until a new login() call or a new
\* authentication message arrives (so the step that follows a logout, which
\* cannot be both the arrival and the resolution of a new flow, leaves it
\* false).  Fails: a login() or handler that was suspended when logout ran
\* resumes and sets isAuthenticated again.
Claim_C10 ==
  [][lastTask'.op # "PageLoad" =>
       /\ (~auth.isAuthenticated /\ auth'.isAuthenticated)
            => lastTask'.op \in {"LoginGetTokenReply", "LoginSessionReply",
                                 "HandlerCurrencyReply", "HandlerSessionReply"}
       /\ (auth.isAuthenticated /\ ~auth'.isAuthenticated) => LogoutCalled'
       /\ (LogoutCalled /\ ~auth.isAuthenticated) => ~auth'.isAuthenticated]_vars

Claim_C12 ==
  (HandlerCompleted /\ lastTask.reply = "reject")
  => /\ ~isTokenInheriting
     /\ navs # <<>>
     /\ navs[Len(navs)].path = "/login"
     /\ \A i \in 1..Len(navs) : navs[i].path # "/dashboard"

\* C13: while isTokenInheriting is true, an inbound message that is not
\* {type:'authentication'} with a non-empty token sets isTokenInheriting to
\* false and navigates to /login (a client-side navigation, the only one of
\* that task), and leaves the in-memory token, the persisted storage and
\* isAuthenticated unchanged.
Thm_C13 ==
  [][(lastTask'.op = "ReceiveOther" /\ isTokenInheriting)
       => /\ ~isTokenInheriting'
          /\ ~auth'.isTokenInheriting
          /\ navs' = <<[path |-> "/login", full |-> FALSE]>>
          /\ auth'.token = auth.token
          /\ auth'.isAuthenticated = auth.isAuthenticated
          /\ sessionStorage' = sessionStorage]_vars

\* such a message has arrived while an authenticated provider was
\* inheriting a refreshed token
Witness_C13 ==
  /\ lastTask.op = "ReceiveOther"
  /\ lastTask.reply = "inheriting"
  /\ ~isTokenInheriting
  /\ auth.isAuthenticated
  /\ auth.token # NULL
  /\ InheritancePending

\* C14: when the target URL of a mounted IframeContainer changes to a URL
\* with the same scheme+host and a different path, the iframe src does not
\* change (no new document is loaded) and exactly one {type:'route-change',
\* path, fullUrl} message is posted, with path = pathname+search+hash of the
\* new URL and fullUrl = the new URL.
Thm_C14 ==
  [][(/\ lastTask'.op = "SelectUrl"
      /\ frame'.url # frame.url
      /\ frame'.url.protocol = frame.url.protocol
      /\ frame'.url.host = frame.url.host)
     => /\ frame'.iframeSrc = frame.iframeSrc
        /\ frame'.loaded = frame.loaded
        /\ posted' = <<[type |-> "route-change",
                        path |-> <<frame'.url.pathname, frame'.url.search,
                                   frame'.url.hash>>,
                        fullUrl |-> frame'.url]>>]_vars

\* a sub-route of the loaded app has been selected
Witness_C14 ==
  /\ lastTask.op = "SelectUrl"
  /\ frame.loaded
  /\ frame.iframeSrc # frame.url
  /\ frame.iframeSrc.host = frame.url.host
  /\ Len(posted) = 1
  /\ posted[1].type = "route-change"
  /\ posted[1].fullUrl.pathname = "/reports/orders"

\* C15: when the target URL of a mounted IframeContainer changes to a URL
\* with a different scheme+host, the iframe src changes to the new URL (one
\* change, which loads a new document) and no route-change message is
\* posted, whatever URL changes preceded it.
Thm_C15 ==
  [][(/\ lastTask'.op = "SelectUrl"
      /\ \/ frame'.url.protocol # frame.url.protocol
         \/ frame'.url.host # frame.url.host)
     => /\ frame'.iframeSrc = frame'.url
        /\ frame'.iframeSrc # frame.iframeSrc
        /\ ~frame'.loaded
        /\ posted' = <<>>]_vars

\* the dashboard sub-route has been selected from another app: the src is
\* the new URL and its document has not loaded yet
Witness_C15 ==
  /\ lastTask.op = "SelectUrl"
  /\ posted = <<>>
  /\ frame.iframeSrc = frame.url
  /\ frame.url.pathname = "/reports/orders"
  /\ ~frame.loaded
  /\ frame.prevBaseUrl = [protocol |-> "https:",
                          host |-> "dashboard.apps.palomapos.com"]

\* C16: on every load event of the iframe, if the Session has a token
\* exactly one {type:'authentication'} message is posted, carrying the
\* current token, accid, apid, employeeid, wpid and sessionData; without a
\* token nothing is posted.
Thm_C16 ==
  lastTask.op = "FrameLoad" =>
    IF auth.token # NULL
    THEN /\ Len(posted) = 1
         /\ posted[1].type = "authentication"
         /\ posted[1].token = auth.token
         /\ posted[1].accid = auth.accid
         /\ posted[1].apid = auth.apid
         /\ posted[1].employeeid = auth.employeeid
         /\ posted[1].wpid = auth.wpid
         /\ posted[1].sessionData = sessionData
    ELSE posted = <<>>

\* the iframe has loaded under a session with its metadata
Witness_C16 ==
  /\ lastTask.op = "FrameLoad"
  /\ auth.token = "t1"
  /\ sessionData # NoSessionData
  /\ Len(posted) = 1
  /\ posted[1].token = "t1"
  /\ posted[1].sessionData.idworkplace = "wp1"

\* C17: the bridge keeps the embedded frame's authentication state
\* synchronized with the Session: once no handler is in flight, the token
\* last posted to the document loaded in the iframe equals the current
\* Session token.  Fails: the only authentication message is the one of the
\* load event; a token that a later inbound message (or login) installs is
\* never posted to the loaded frame.
Claim_C17 ==
  (/\ frame.mounted
   /\ frame.loaded
   /\ NoFlowInFlight
   /\ auth.isAuthenticated
   /\ auth.token # NULL)
  => frame.received = auth.token

\* C18: whenever the theme or the language changes while an iframe is
\* mounted, a {type:'theme-language-update', theme, language} message with
\* the new values is posted to the frame and the iframe src does not change.
\* Fails: the IframeContainer posts no such message; the theme and language
\* an inbound authentication message sets never reach the frame.
Claim_C18 ==
  [][(/\ frame.mounted
      /\ frame'.mounted
      /\ (theme' # theme \/ language' # language))
     => /\ frame'.iframeSrc = frame.iframeSrc
        /\ \E i \in 1..Len(posted') :
              /\ posted'[i].type = "theme-language-update"
              /\ posted'[i].theme = theme'
              /\ posted'[i].language = language']_vars

\* C19: in every state with no handler in flight and a persisted token,
\* exactly one of the persisted flags isTokenInherit / isCredentialLogin is
\* 'true' and the in-memory isCredentialLogin agrees with it (as it must if
\* the flag names the path that wrote the token).  Fails: an inbound message
\* handled while login() awaits getToken rewrites the flags, and login()
\* then persists its token and sets isCredentialLogin in memory only.
Claim_C19 ==
  (NoFlowInFlight /\ sessionStorage["paloma_token"] # NULL)
  => /\ (sessionStorage["isTokenInherit"] = "true")
          # (sessionStorage["isCredentialLogin"] = "true")
     /\ auth.isCredentialLogin = (sessionStorage["isCredentialLogin"] = "true")

\* C20: in every state in which no handler is in flight, the in-memory
\* Session token equals the persisted paloma_token.  Fails: login() and an
\* inbound handler that are suspended together write the persisted token in
\* one order and the in-memory token in the other.
Claim_C20 ==
  NoFlowInFlight => auth.token = sessionStorage["paloma_token"]

\* C21: each documentation endpoint (file list, bulk, single file) answers
\* 200 with content only when the method is GET and the supplied key (the
\* query parameter key, else the header x-api-key) equals the configured
\* DOCS_API_KEY; otherwise it answers, in this order, 405 for a non-GET
\* method, 500 when no key is configured, 401 when the key is missing or
\* different.
Thm_C21 ==
  docs.endpoint # NULL =>
    LET req == docs.request
        res == docs.response
        configured == req.env.DOCS_API_KEY
        supplied == IF req.queryKey \notin {NULL, ""} THEN req.queryKey
                    ELSE req.headerKey
        authorized == /\ req.method = "GET"
                      /\ configured \notin {NULL, ""}
                      /\ supplied = configured
    IN /\ res.status = 200 => (authorized /\ res.success /\ res.data # NULL)
       /\ req.method # "GET" => res.status = 405
       /\ (req.method = "GET" /\ configured \in {NULL, ""})
            => (res.status = 500 /\ res.error = "API key not configured")
       /\ (req.method = "GET" /\ configured \notin {NULL, ""}
            /\ supplied # configured) => res.status = 401
       /\ ~authorized => (~res.success /\ res.data = NULL)

\* the bulk endpoint has refused a request whose header carries the right
\* key and whose query parameter carries another one
Witness_C21 ==
  /\ docs.endpoint = "all"
  /\ docs.request.method = "GET"
  /\ docs.request.env.DOCS_API_KEY = "k1"
  /\ docs.request.headerKey = "k1"
  /\ docs.request.queryKey = "k2"
  /\ docs.response.status = 401

\* C22: in the Dashboard with sub-items, a selection of a sub-item while
\* the dashboard app is active never changes the iframe src, and, when the
\* sub-item differs from the current one, posts exactly one route-change
\* message whose fullUrl is the url of that sub-item.
Thm_C22 ==
  [][(/\ lastTask'.op = "SubItemSelect"
      /\ dashboard.variant = "subItems"
      /\ dashboard.activeAppId = "dashboard")
     => /\ frame'.iframeSrc = frame.iframeSrc
        /\ frame'.loaded = frame.loaded
        /\ dashboard'.activeSubItem \in SubItems
        /\ dashboard'.pathname = dashboard'.activeSubItem.path
        /\ IF dashboard'.activeSubItem # dashboard.activeSubItem
           THEN /\ Len(posted') = 1
                /\ posted'[1].type = "route-change"
                /\ posted'[1].fullUrl = dashboard'.activeSubItem.url
           ELSE posted' = <<>>]_vars

\* after the dashboard has loaded at its main page, the orders report and
\* then the items report have been selected
Witness_C22 ==
  /\ lastTask.op = "SubItemSelect"
  /\ dashboard.variant = "subItems"
  /\ dashboard.activeSubItem.id = "items-report"
  /\ frame.prevUrl.pathname = "/reports/items"
  /\ frame.iframeSrc.pathname = "/"
  /\ frame.loaded
  /\ Len(posted) = 1
  /\ posted[1].fullUrl.pathname = "/reports/items"

\* C23: once idautomated_point and idworkplace are persisted and no
\* metadata fetch is pending, the authentication message posted on a load
\* of the iframe carries them: its sessionData equals the persisted
\* paloma_idautomated_point and paloma_idworkplace.  Fails: a provider that
\* starts from storage restores the token and the ids but starts with
\* sessionData = null and never reads the two persisted values back.
Claim_C23 ==
  (/\ lastTask.op = "FrameLoad"
   /\ NoFlowInFlight
   /\ auth.token # NULL
   /\ sessionStorage["paloma_idautomated_point"] # NULL
   /\ sessionStorage["paloma_idworkplace"] # NULL)
  => /\ Len(posted) = 1
     /\ posted[1].type = "authentication"
     /\ posted[1].sessionData =
          [idautomated_point |-> sessionStorage["paloma_idautomated_point"],
           idworkplace |-> sessionStorage["paloma_idworkplace"]]

\* C24: outbound messages are fire-and-forget.  A step of a mounted
\* IframeContainer has at most one effect on the iframe (one src change or
\* one route-change message, never both), and only when the target URL
\* changes; a route-change message is for the URL the target just changed
\* to, so none is sent again later; when the window of the frame is
\* unavailable at a change to a URL of the same base, no message is posted
\* and the src stays, while the previous-URL tracker advances to the URL.
Thm_C24 ==
  [][(frame.mounted /\ frame'.mounted)
     => LET srcChanged == frame'.iframeSrc # frame.iframeSrc
            routeChanges ==
              {i \in DOMAIN posted' : posted'[i].type = "route-change"}
            urlChanged == frame'.url # frame.url
        IN /\ Cardinality(routeChanges) <= 1
           /\ ~(srcChanged /\ routeChanges # {})
           /\ (srcChanged \/ routeChanges # {}) => urlChanged
           /\ \A i \in routeChanges : posted'[i].fullUrl = frame'.url
           /\ (/\ urlChanged
               /\ getBaseUrl(frame'.url) = frame.prevBaseUrl
               /\ ~frame.window)
              => /\ posted' = <<>>
                 /\ ~srcChanged
                 /\ frame'.prevUrl = frame'.url]_vars

\* a sub-item was selected while the window was unavailable: nothing was
\* posted, the src is the one of the initial load, and the tracker holds
\* the selected URL
Witness_C24 ==
  /\ lastTask.op = "SubItemSelect"
  /\ ~frame.window
  /\ posted = <<>>
  /\ frame.url.pathname = "/reports/orders"
  /\ frame.prevUrl = frame.url
  /\ frame.iframeSrc.pathname = "/"
  /\ frame.iframeSrc.host = frame.url.host

\* C25: a window message that is not an authentication message, received
\* while isAuthenticated is true and no inheritance is pending, issues no
\* navigation and leaves the Session as it was.  Fails: the else branch of
\* the handler navigates to /login whatever the authentication state.
Claim_C25 ==
  [][(/\ lastTask'.op = "ReceiveOther"
      /\ auth.isAuthenticated
      /\ ~isTokenInheriting
      /\ NoFlowInFlight)
     => /\ navs' = <<>>
        /\ auth' = auth
        /\ sessionData' = sessionData
        /\ sessionStorage' = sessionStorage]_vars

\* C26: after an inbound authentication message has been processed (its
\* handler has ended and no other flow is in flight), the persisted accid,
\* apid, employeeid and wpid equal the in-memory ones, both absent when the
\* message omits the field.  Fails: the handler persists a field only when
\* the message carries it, so the value an earlier message persisted stays
\* in storage while the in-memory field becomes null.
Claim_C26 ==
  (/\ lastTask.op = "HandlerSessionReply"
   /\ lastTask.reply = "row"
   /\ NoFlowInFlight)
  => /\ sessionStorage["paloma_accid"] = auth.accid
     /\ sessionStorage["paloma_apid"] = auth.apid
     /\ sessionStorage["paloma_employeeid"] = auth.employeeid
     /\ sessionStorage["paloma_wpid"] = auth.wpid

\* C27: in every reachable state at most one of the persisted flags
\* isTokenInherit and isCredentialLogin is 'true'.
Thm_C27 ==
  ~(/\ sessionStorage["isTokenInherit"] = "true"
    /\ sessionStorage["isCredentialLogin"] = "true")

\* an authentication message has been accepted while login() awaits its
\* getToken request: the message's flag is the one that is persisted
Witness_C27 ==
  /\ lpc = "getToken"
  /\ lastTask.op = "ReceiveAuthentication"
  /\ sessionStorage["isTokenInherit"] = "true"
  /\ sessionStorage["isCredentialLogin"] = NULL

\* C28: persisted isTokenInherit = 'true' implies that a paloma_token is
\* persisted; so a provider that starts from storage starts with
\* isTokenInheriting = false and with isAuthenticated true exactly when a
\* token is persisted.
Thm_C28 ==
  /\ sessionStorage["isTokenInherit"] = "true"
       => sessionStorage["paloma_token"] \notin {NULL, ""}
  /\ lastTask.op = "PageLoad"
       => /\ ~isTokenInheriting
          /\ ~auth.isTokenInheriting
          /\ auth.isAuthenticated = (sessionStorage["paloma_token"] # NULL)

\* the provider has started from the storage an inheritance left
Witness_C28 ==
  /\ lastTask.op = "PageLoad"
  /\ sessionStorage["isTokenInherit"] = "true"
  /\ sessionStorage["paloma_token"] = "t2"
  /\ auth.isAuthenticated
  /\ ~isTokenInheriting

\* C29: in every reachable state isAuthenticated = true implies that the
\* in-memory Session token is not null.  Fails: fetchSessionData ends with
\* setAuth(prev => ({...prev, isAuthenticated: true})) on the state a
\* logout (or handleTokenError) has cleared in the meantime.
Claim_C29 ==
  auth.isAuthenticated => auth.token # NULL

\* C30: once the url effect of a mounted IframeContainer has run, the
\* scheme+host of the iframe src is the one of the current target URL, the
\* previous-URL tracker is the current target URL, and the previous-base
\* tracker is the scheme+host of the previous-URL tracker; under the
\* Dashboard without sub-items, whose apps have pairwise different hosts,
\* the iframe src is the url of the active app.
Thm_C30 ==
  frame.mounted =>
    /\ getBaseUrl(frame.iframeSrc) = getBaseUrl(frame.url)
    /\ frame.prevUrl = frame.url
    /\ frame.prevBaseUrl = getBaseUrl(frame.prevUrl)
    /\ frame.url = currentUrl(dashboard)
    /\ dashboard.variant = "apps"
         => /\ dashboard.activeAppId \in AppIds
            /\ frame.iframeSrc = getAppById(dashboard.activeAppId).url

\* another app has been selected in the Dashboard without sub-items: the
\* src is its url and the new document has not loaded yet
Witness_C30 ==
  /\ frame.mounted
  /\ dashboard.variant = "apps"
  /\ lastTask.op = "AppSelect"
  /\ dashboard.activeAppId = "orders"
  /\ frame.iframeSrc.host = "order.out.apps.palomapos.com"
  /\ frame.prevBaseUrl.host = "order.out.apps.palomapos.com"
  /\ ~frame.loaded

TypeOK ==
  /\ \A k \in AllKeys : sessionStorage[k] \in STRING
  /\ isTokenInheriting \in BOOLEAN
  /\ auth.isAuthenticated \in BOOLEAN
  /\ lpc \in {"idle", "getToken", "currency", "session"}
  /\ \A h \in Handlers : hpc[h] \in {"idle", "currency", "session"}

====
